---- MODULE Spec2Model ----
(***************************************************************************)
(* Model of the streaming connection resilience engine of                  *)
(* src/src/app/marketWatcher.js: subscription planning (buildUrl), the      *)
(* WebSocket session handlers installed by connect(), the reconnect        *)
(* policy (attemptReconnect), the health / hard-reset / display timers and *)
(* start / stop.                                                           *)
(*                                                                         *)
(* Strings are sequences of one-character strings, except that a literal   *)
(* of the source that is only ever appended whole ("@miniTicker",          *)
(* "&timeUnit=MICROSECOND", the endpoint) is one element.                  *)
(***************************************************************************)
EXTENDS Integers, Sequences, FiniteSets, TLC

VARIABLES
    env,               \* process.env / argv values read at module load
    SYMBOLS,           \* marketWatcher.js:21
    TIME_UNIT,         \* marketWatcher.js:28
    ws,                \* marketWatcher.js:36  (0 is null, else index into sock)
    sock,              \* every WebSocket object created so far: readyState, url
    connectCount,      \* marketWatcher.js:37
    disconnectCount,   \* marketWatcher.js:38
    lastMessageTs,     \* marketWatcher.js:39
    lastPingTs,        \* marketWatcher.js:40
    lastPongTs,        \* marketWatcher.js:41
    shuttingDown,      \* marketWatcher.js:42
    hardResetTimer,    \* marketWatcher.js:43
    displayTimer,      \* marketWatcher.js:44
    healthTimer,       \* marketWatcher.js:45
    reconnectAttempts, \* marketWatcher.js:46
    dataMap,           \* marketWatcher.js:49
    reconnectTimers,   \* pending setTimeout callbacks of attemptReconnect
    exited,            \* <<>> while running, else <<status given to process.exit>>
    now,               \* Date.now()
    ev,                \* the event handled last
    out,               \* what handling it sent / invoked
    arg,               \* input of the backoff computation (SpecBackoff only)
    res                \* its result (SpecBackoff only)

vars == <<env, SYMBOLS, TIME_UNIT, ws, sock, connectCount, disconnectCount,
          lastMessageTs, lastPingTs, lastPongTs, shuttingDown, hardResetTimer,
          displayTimer, healthTimer, reconnectAttempts, dataMap,
          reconnectTimers, exited, now, ev, out, arg, res>>

\* the variables that are state of the program
progVars == <<env, SYMBOLS, TIME_UNIT, ws, sock, connectCount, disconnectCount,
              lastMessageTs, lastPingTs, lastPongTs, shuttingDown,
              hardResetTimer, displayTimer, healthTimer, reconnectAttempts,
              dataMap, reconnectTimers, exited>>

----------------------------------------------------------------------------
(* Config constants, marketWatcher.js:24-33 *)

MAX_STREAMS == 512
DISPLAY_INTERVAL_MS == 10000
HARD_RESET_INTERVAL_MS == 12 * 60 * 60 * 1000
ENDPOINT == "wss://data-stream.binance.vision/stream"
USE_ALL_MINI_THRESHOLD == 200
MAX_DISCONNECTS == 5
EXPECTED_PING_INTERVAL_MS == 60000
GRACE_NO_PING_MS == 75000
UNSOLICITED_PING_AFTER_MS == 50000
HEALTH_INTERVAL_MS == 10000
BACKOFF_UNIT_MS == 1000
BACKOFF_MAX_EXP == 5
BACKOFF_CAP_MS == 15000
JITTER_MS == 500
DEFAULT_SYMBOLS ==
    <<"B","T","C","U","S","D","T",",","E","T","H","U","S","D","T",",",
      "B","N","B","U","S","D","T",",","S","O","L","U","S","D","T">>

Min(a, b) == IF a < b THEN a ELSE b

----------------------------------------------------------------------------
(* String helpers: String.prototype.toLowerCase / trim / split / startsWith, *)
(* Array.prototype.slice / map / join                                        *)

UpperChars == <<"A","B","C","D","E","F","G","H","I","J","K","L","M",
                "N","O","P","Q","R","S","T","U","V","W","X","Y","Z">>
LowerChars == <<"a","b","c","d","e","f","g","h","i","j","k","l","m",
                "n","o","p","q","r","s","t","u","v","w","x","y","z">>
WhiteSpace == {" ", "\t"}

lowerChar(c) ==
    IF \E i \in 1..Len(UpperChars) : UpperChars[i] = c
    THEN LowerChars[CHOOSE i \in 1..Len(UpperChars) : UpperChars[i] = c]
    ELSE c

toLowerCase(s) == [i \in 1..Len(s) |-> lowerChar(s[i])]

trim(s) ==
    LET keep == {i \in 1..Len(s) : s[i] \notin WhiteSpace}
    IN  IF keep = {} THEN <<>>
        ELSE LET lo == CHOOSE i \in keep : \A j \in keep : i <= j
                 hi == CHOOSE i \in keep : \A j \in keep : j <= i
             IN  SubSeq(s, lo, hi)

\* positions of the separator in s[lo..hi], ascending
RECURSIVE sepPositions(_, _, _, _)
sepPositions(s, sep, lo, hi) ==
    IF lo > hi THEN <<>>
    ELSE IF lo = hi THEN (IF s[lo] = sep THEN <<lo>> ELSE <<>>)
    ELSE LET mid == (lo + hi) \div 2
         IN  sepPositions(s, sep, lo, mid) \o sepPositions(s, sep, mid + 1, hi)

split(s, sep) ==
    LET p == sepPositions(s, sep, 1, Len(s))
        n == Len(p) + 1
        from(k) == IF k = 1 THEN 1 ELSE p[k - 1] + 1
        to(k) == IF k = n THEN Len(s) ELSE p[k] - 1
    IN  [k \in 1..n |-> SubSeq(s, from(k), to(k))]

\* Array.prototype.join over list[lo..hi]
RECURSIVE joinRange(_, _, _, _)
joinRange(list, sep, lo, hi) ==
    IF lo > hi THEN <<>>
    ELSE IF lo = hi THEN list[lo]
    ELSE LET mid == (lo + hi) \div 2
         IN  joinRange(list, sep, lo, mid) \o <<sep>>
                 \o joinRange(list, sep, mid + 1, hi)

join(list, sep) == joinRange(list, sep, 1, Len(list))

slice(list, from, to) == SubSeq(list, from + 1, Min(to, Len(list)))

startsWith(s, prefix) ==
    /\ Len(s) >= Len(prefix)
    /\ SubSeq(s, 1, Len(prefix)) = prefix

Truthy(s) == s # <<>>

\* x || y on strings
OrElse(x, y) == IF Truthy(x) THEN x ELSE y

\* marketWatcher.js:21-23
parseSymbols(e) ==
    LET parts == split(OrElse(e.SYMBOLS, DEFAULT_SYMBOLS), ",")
        mapped == [i \in 1..Len(parts) |-> toLowerCase(trim(parts[i]))]
    IN  SelectSeq(mapped, Truthy)

\* marketWatcher.js:28
parseTimeUnit(e) == toLowerCase(e.TIME_UNIT)

\* mutant: a shorter prefix is taken for a microsecond hint
timeUnitSuffixShortPrefix(tu) ==
    IF startsWith(tu, <<"m","i","c">>)
    THEN <<"&timeUnit=MICROSECOND">> ELSE <<>>

timeUnitSuffix(tu) ==
    IF startsWith(tu, <<"m","i","c","r","o">>)
    THEN <<"&timeUnit=MICROSECOND">> ELSE <<>>

\* mutant: >= instead of > at the aggregate threshold
buildUrlAtThreshold(syms, tu) ==
    IF Len(syms) >= USE_ALL_MINI_THRESHOLD
    THEN <<ENDPOINT, "?streams=", "!miniTicker@arr">> \o timeUnitSuffix(tu)
    ELSE LET limited == slice(syms, 0, MAX_STREAMS)
             stream == join([i \in 1..Len(limited) |->
                                 limited[i] \o <<"@miniTicker">>], "/")
         IN  <<ENDPOINT, "?streams=">> \o stream \o timeUnitSuffix(tu)

\* marketWatcher.js:52-63
buildUrl(syms, tu) ==
    IF Len(syms) > USE_ALL_MINI_THRESHOLD
    THEN <<ENDPOINT, "?streams=", "!miniTicker@arr">> \o timeUnitSuffix(tu)
    ELSE LET limited == slice(syms, 0, MAX_STREAMS)
             stream == join([i \in 1..Len(limited) |->
                                 limited[i] \o <<"@miniTicker">>], "/")
         IN  <<ENDPOINT, "?streams=">> \o stream \o timeUnitSuffix(tu)

----------------------------------------------------------------------------
(* Bounds of the model *)

MaxSockets == 6      \* WebSocket objects one run may create
MaxAdvance == 2      \* clock advances explored
MaxK == 20           \* attempt numbers explored by SpecBackoff

\* Date.now() when the module is loaded, and the granularity of the clock
\* (the interval at which the server is expected to ping)
StartTime == 2 * 1000 * 1000 * 1000
ClockStep == EXPECTED_PING_INTERVAL_MS

Jitters == {0, 1, 250, 498, 499}      \* samples of Math.random() * 500
RunJitters == {0, 499}
Payloads == {<<>>, <<1, 2>>}           \* heartbeat payloads (byte strings)

----------------------------------------------------------------------------
(* Values *)

NullTimer == [st |-> "null", at |-> 0]
Running == <<>>

\* arguments of stopMarketWatcher
Undefined == [t |-> "undefined"]
Null == [t |-> "null"]
Num(n) == [t |-> "num", v |-> n]
EmptyStr == [t |-> "str", v |-> ""]
StopArgs == {Undefined, Null, Num(0), Num(1), EmptyStr}

\* JSON values of inbound frames
Ticker(s, c) == [t |-> "obj", s |-> s, c |-> c]
NoSymbol(c) == [t |-> "obj", c |-> c]
Envelope(stream, data) == [t |-> "obj", stream |-> stream, data |-> data]
Arr(items) == [t |-> "arr", items |-> items]
Text(v) == [ok |-> TRUE, value |-> v]
Garbage == [ok |-> FALSE, value |-> Null]

Frames ==
    { Garbage,
      Text(Null),
      Text(Num(7)),
      Text(Ticker("BTCUSDT", 1)),
      Text(Ticker("ETHUSDT", 1)),
      Text(Ticker("", 1)),
      Text(NoSymbol(2)),
      Text(Envelope("btcusdt@miniTicker", Ticker("BTCUSDT", 2))),
      Text(Envelope("x", Null)),
      Text(Arr(<<Ticker("BTCUSDT", 1), Ticker("ETHUSDT", 1),
                 Ticker("BTCUSDT", 2)>>)),
      Text(Arr(<<Null, NoSymbol(1), Ticker("ETHUSDT", 1)>>)),
      Text(Envelope("!miniTicker@arr",
                    Arr(<<Ticker("BTCUSDT", 2), Ticker("BTCUSDT", 1)>>))) }

\* the frames the whole engine is explored with
RunFrames ==
    { Garbage,
      Text(Null),
      Text(Ticker("BTCUSDT", 1)) }

----------------------------------------------------------------------------
(* The ws library, as far as the engine uses it: what a call does to a     *)
(* WebSocket in a given readyState                                         *)

ReadyStates == {"CONNECTING", "OPEN", "CLOSING", "CLOSED"}

\* WebSocket.prototype.terminate: never throws, no effect once closed
wsTerminate(st) == IF st = "CLOSED" THEN "CLOSED" ELSE "CLOSING"

\* WebSocket.prototype.close: starts the closing handshake
wsClose(st) == IF st = "CLOSED" THEN "CLOSED" ELSE "CLOSING"

\* WebSocket.prototype.ping / pong: throw while CONNECTING, send while OPEN,
\* and are dropped without an exception afterwards
wsSendThrows(st) == st = "CONNECTING"
wsSends(st) == st = "OPEN"

----------------------------------------------------------------------------
(* Timers *)

armed(t) == t.st = "armed"
\* clearInterval / clearTimeout
clearTimer(t) == IF armed(t) THEN [t EXCEPT !.st = "cleared"] ELSE t
\* setInterval / setTimeout at the current time
newTimer == [st |-> "armed", at |-> now]

----------------------------------------------------------------------------
(* Inbound data frames, marketWatcher.js:162-177 *)

\* JSON.parse(raw.toString()) throws on text that is not JSON
parseThrows(raw) == ~raw.ok
JSONparse(raw) == raw.value

jsTruthy(v) == v.t \in {"obj", "arr"}
hasField(v, f) == v.t = "obj" /\ f \in DOMAIN v

\* msg.data || msg ; reading a property of null throws
payloadThrows(msg) == msg.t = "null"
payloadOf(msg) ==
    IF hasField(msg, "data") /\ jsTruthy(msg.data) THEN msg.data ELSE msg

\* entry && entry.s
hasSymbol(entry) == hasField(entry, "s") /\ entry.s # ""

\* mutant: an existing entry is kept (first write wins)
mapSetKeepFirst(m, k, v) ==
    [x \in DOMAIN m \cup {k} |-> IF x \in DOMAIN m THEN m[x] ELSE v]

\* Map.prototype.set
mapSet(m, k, v) == [x \in DOMAIN m \cup {k} |-> IF x = k THEN v ELSE m[x]]

\* for (const entry of payload) if (entry && entry.s) dataMap.set(entry.s, entry)
RECURSIVE setEntries(_, _, _)
setEntries(m, items, i) ==
    IF i > Len(items) THEN m
    ELSE setEntries(IF hasSymbol(items[i])
                    THEN mapSet(m, items[i].s, items[i]) ELSE m,
                    items, i + 1)

\* mutant: a frame that cannot be processed empties the cache
onMessageMapResetOnError(m, raw) ==
    IF parseThrows(raw) THEN [x \in {} |-> Null]
    ELSE LET msg == JSONparse(raw)
         IN  IF payloadThrows(msg) THEN [x \in {} |-> Null]
             ELSE LET payload == payloadOf(msg)
                  IN  IF payload.t = "arr" THEN setEntries(m, payload.items, 1)
                      ELSE IF hasSymbol(payload)
                           THEN mapSet(m, payload.s, payload)
                           ELSE m

\* the cache after the message handler has processed raw
onMessageMap(m, raw) ==
    IF parseThrows(raw) THEN m
    ELSE LET msg == JSONparse(raw)
         IN  IF payloadThrows(msg) THEN m
             ELSE LET payload == payloadOf(msg)
                  IN  IF payload.t = "arr" THEN setEntries(m, payload.items, 1)
                      ELSE IF hasSymbol(payload)
                           THEN mapSet(m, payload.s, payload)
                           ELSE m

----------------------------------------------------------------------------
(* Reconnect policy, marketWatcher.js:197 *)

\* mutant: the 15 s ceiling is missing
backoffDelayUncapped(k) == BACKOFF_UNIT_MS * 2 ^ Min(k, BACKOFF_MAX_EXP)

backoffDelay(k) ==
    Min(BACKOFF_UNIT_MS * 2 ^ Min(k, BACKOFF_MAX_EXP), BACKOFF_CAP_MS)

----------------------------------------------------------------------------
(* Initial state: module load, marketWatcher.js:20-49 *)

EmptyMap == [x \in {} |-> Null]

Str(n, tok) == [i \in 1..(n * (Len(tok) + 1) - 1) |->
                   IF i % (Len(tok) + 1) = 0 THEN "," ELSE tok[i % (Len(tok) + 1)]]

Micro == <<"M","i","c","r","o","s","e","c","o","n","d">>

\* the environments the engine runs are explored under
RunEnvs ==
    { [SYMBOLS |-> <<" ","B","T","C",","," ",",","e","t","h">>,
       TIME_UNIT |-> Micro] }

InitWith(e) ==
    /\ env = e
    /\ SYMBOLS = parseSymbols(e)
    /\ TIME_UNIT = parseTimeUnit(e)
    /\ ws = 0
    /\ sock = <<>>
    /\ connectCount = 0
    /\ disconnectCount = 0
    /\ lastMessageTs = 0
    /\ lastPingTs = 0
    /\ lastPongTs = 0
    /\ shuttingDown = FALSE
    /\ hardResetTimer = NullTimer
    /\ displayTimer = NullTimer
    /\ healthTimer = NullTimer
    /\ reconnectAttempts = 0
    /\ dataMap = EmptyMap
    /\ reconnectTimers = <<>>
    /\ exited = Running
    /\ now = StartTime
    /\ ev = "load"
    /\ out = <<>>

Init ==
    /\ \E e \in RunEnvs : InitWith(e)
    /\ arg = 0
    /\ res = 0

cfgVars == <<env, SYMBOLS, TIME_UNIT, arg, res>>
timerVars == <<hardResetTimer, displayTimer, healthTimer>>
stampVars == <<lastMessageTs, lastPingTs, lastPongTs>>

----------------------------------------------------------------------------
(* Connection logic *)

\* mutant: the session is created without being counted
connectUncounted ==
    /\ Len(sock) < MaxSockets
    /\ sock' = Append(sock, [st |-> "CONNECTING",
                             url |-> buildUrl(SYMBOLS, TIME_UNIT)])
    /\ ws' = Len(sock) + 1
    /\ connectCount' = connectCount

\* connect(), marketWatcher.js:143-147 (the handlers it installs are the
\* On... actions below)
connect ==
    /\ Len(sock) < MaxSockets
    /\ sock' = Append(sock, [st |-> "CONNECTING",
                             url |-> buildUrl(SYMBOLS, TIME_UNIT)])
    /\ ws' = Len(sock) + 1
    /\ connectCount' = connectCount + 1

connectOut == <<[op |-> "connect", sock |-> Len(sock) + 1]>>

\* mutant: a closed socket counts as no socket and is replaced at once
safeReconnectWhenClosed ==
    IF ws = 0 \/ sock[ws].st = "CLOSED" THEN connect
    ELSE /\ sock' = [sock EXCEPT ![ws].st = wsTerminate(@)]
         /\ UNCHANGED <<ws, connectCount>>

\* safeReconnect(), marketWatcher.js:136-140
safeReconnect ==
    IF ws = 0 THEN connect
    ELSE /\ sock' = [sock EXCEPT ![ws].st = wsTerminate(@)]
         /\ UNCHANGED <<ws, connectCount>>

safeReconnectOut ==
    IF ws = 0 THEN connectOut ELSE <<[op |-> "terminate", sock |-> ws]>>

\* mutant: a successful open also resets the disconnect counter
OnOpenResetsDisconnects(i) ==
    /\ exited = Running
    /\ ev' = "open"
    /\ sock[i].st = "CONNECTING"
    /\ sock' = [sock EXCEPT ![i].st = "OPEN"]
    /\ reconnectAttempts' = 0
    /\ disconnectCount' = 0
    /\ lastMessageTs' = now
    /\ out' = <<>>
    /\ UNCHANGED <<cfgVars, timerVars, ws, connectCount,
                   lastPingTs, lastPongTs, shuttingDown, dataMap,
                   reconnectTimers, exited, now>>

\* ws.on('open'), marketWatcher.js:149-153
OnOpen(i) ==
    /\ exited = Running
    /\ ev' = "open"
    /\ sock[i].st = "CONNECTING"
    /\ sock' = [sock EXCEPT ![i].st = "OPEN"]
    /\ reconnectAttempts' = 0
    /\ lastMessageTs' = now
    /\ out' = <<>>
    /\ UNCHANGED <<cfgVars, timerVars, ws, connectCount, disconnectCount,
                   lastPingTs, lastPongTs, shuttingDown, dataMap,
                   reconnectTimers, exited, now>>

\* mutant: the pong is sent without the ping's payload
OnPingEmptyPong(i, payload) ==
    /\ exited = Running
    /\ ev' = "ping"
    /\ sock[i].st \in {"OPEN", "CLOSING"}
    /\ lastPingTs' = now
    /\ IF wsSendThrows(sock[ws].st)
       THEN /\ out' = <<>>
            /\ UNCHANGED lastPongTs
       ELSE /\ out' = IF wsSends(sock[ws].st)
                      THEN <<[op |-> "pong", sock |-> ws, payload |-> <<>>]>>
                      ELSE <<>>
            /\ lastPongTs' = now
    /\ UNCHANGED <<cfgVars, timerVars, ws, sock, connectCount, disconnectCount,
                   lastMessageTs, shuttingDown, reconnectAttempts, dataMap,
                   reconnectTimers, exited, now>>

\* ws.on('ping'), marketWatcher.js:155-158
OnPing(i, payload) ==
    /\ exited = Running
    /\ ev' = "ping"
    /\ sock[i].st \in {"OPEN", "CLOSING"}
    /\ lastPingTs' = now
    /\ IF wsSendThrows(sock[ws].st)
       THEN /\ out' = <<>>
            /\ UNCHANGED lastPongTs
       ELSE /\ out' = IF wsSends(sock[ws].st)
                      THEN <<[op |-> "pong", sock |-> ws, payload |-> payload]>>
                      ELSE <<>>
            /\ lastPongTs' = now
    /\ UNCHANGED <<cfgVars, timerVars, ws, sock, connectCount, disconnectCount,
                   lastMessageTs, shuttingDown, reconnectAttempts, dataMap,
                   reconnectTimers, exited, now>>

\* ws.on('pong'), marketWatcher.js:160
OnPong(i) ==
    /\ exited = Running
    /\ ev' = "pong"
    /\ sock[i].st \in {"OPEN", "CLOSING"}
    /\ lastPongTs' = now
    /\ out' = <<>>
    /\ UNCHANGED <<cfgVars, timerVars, ws, sock, connectCount, disconnectCount,
                   lastMessageTs, lastPingTs, shuttingDown, reconnectAttempts,
                   dataMap, reconnectTimers, exited, now>>

\* ws.on('message'), marketWatcher.js:162-177
OnMessage(i, raw) ==
    /\ exited = Running
    /\ ev' = "message"
    /\ sock[i].st \in {"OPEN", "CLOSING"}
    /\ lastMessageTs' = now
    /\ dataMap' = onMessageMap(dataMap, raw)
    /\ out' = <<>>
    /\ UNCHANGED <<cfgVars, timerVars, ws, sock, connectCount, disconnectCount,
                   lastPingTs, lastPongTs, shuttingDown, reconnectAttempts,
                   reconnectTimers, exited, now>>

\* mutant: the delay is computed before the counter is incremented
attemptReconnectPostIncrement(jitter) ==
    /\ reconnectAttempts' = reconnectAttempts + 1
    /\ reconnectTimers' =
           Append(reconnectTimers,
                  [k |-> reconnectAttempts,
                   delay |-> backoffDelay(reconnectAttempts) + jitter])

\* attemptReconnect(), marketWatcher.js:195-201
attemptReconnect(jitter) ==
    /\ reconnectAttempts' = reconnectAttempts + 1
    /\ reconnectTimers' =
           Append(reconnectTimers,
                  [k |-> reconnectAttempts + 1,
                   delay |-> backoffDelay(reconnectAttempts + 1) + jitter])

\* mutant: a close drops the snapshots of the session that ended
OnCloseDropsCache(i, jitter) ==
    /\ exited = Running
    /\ ev' = "close"
    /\ sock[i].st \in {"CONNECTING", "OPEN", "CLOSING"}
    /\ sock' = [sock EXCEPT ![i].st = "CLOSED"]
    /\ disconnectCount' = disconnectCount + 1
    /\ dataMap' = [x \in {} |-> Null]
    /\ IF shuttingDown
       THEN /\ out' = <<>>
            /\ UNCHANGED <<reconnectAttempts, reconnectTimers, exited>>
       ELSE IF disconnectCount + 1 >= MAX_DISCONNECTS
       THEN /\ exited' = <<Num(1)>>
            /\ out' = <<[op |-> "exit", code |-> Num(1)]>>
            /\ UNCHANGED <<reconnectAttempts, reconnectTimers>>
       ELSE /\ attemptReconnect(jitter)
            /\ out' = <<[op |-> "setTimeout", k |-> reconnectAttempts + 1]>>
            /\ UNCHANGED exited
    /\ UNCHANGED <<cfgVars, timerVars, stampVars, ws, connectCount,
                   shuttingDown, now>>

\* mutant: the close handler does not test the shutting-down flag
OnCloseIgnoresFlag(i, jitter) ==
    /\ exited = Running
    /\ ev' = "close"
    /\ sock[i].st \in {"CONNECTING", "OPEN", "CLOSING"}
    /\ sock' = [sock EXCEPT ![i].st = "CLOSED"]
    /\ disconnectCount' = disconnectCount + 1
    /\ IF disconnectCount + 1 >= MAX_DISCONNECTS
       THEN /\ exited' = <<Num(1)>>
            /\ out' = <<[op |-> "exit", code |-> Num(1)]>>
            /\ UNCHANGED <<reconnectAttempts, reconnectTimers>>
       ELSE /\ attemptReconnect(jitter)
            /\ out' = <<[op |-> "setTimeout", k |-> reconnectAttempts + 1]>>
            /\ UNCHANGED exited
    /\ UNCHANGED <<cfgVars, timerVars, stampVars, ws, connectCount,
                   shuttingDown, dataMap, now>>

\* mutant: > instead of >= at the disconnect budget
OnCloseOverBudget(i, jitter) ==
    /\ exited = Running
    /\ ev' = "close"
    /\ sock[i].st \in {"CONNECTING", "OPEN", "CLOSING"}
    /\ sock' = [sock EXCEPT ![i].st = "CLOSED"]
    /\ disconnectCount' = disconnectCount + 1
    /\ IF shuttingDown
       THEN /\ out' = <<>>
            /\ UNCHANGED <<reconnectAttempts, reconnectTimers, exited>>
       ELSE IF disconnectCount + 1 > MAX_DISCONNECTS
       THEN /\ exited' = <<Num(1)>>
            /\ out' = <<[op |-> "exit", code |-> Num(1)]>>
            /\ UNCHANGED <<reconnectAttempts, reconnectTimers>>
       ELSE /\ attemptReconnect(jitter)
            /\ out' = <<[op |-> "setTimeout", k |-> reconnectAttempts + 1]>>
            /\ UNCHANGED exited
    /\ UNCHANGED <<cfgVars, timerVars, stampVars, ws, connectCount,
                   shuttingDown, dataMap, now>>

\* mutant: the disconnect budget is not tested
OnCloseNoBudget(i, jitter) ==
    /\ exited = Running
    /\ ev' = "close"
    /\ sock[i].st \in {"CONNECTING", "OPEN", "CLOSING"}
    /\ sock' = [sock EXCEPT ![i].st = "CLOSED"]
    /\ disconnectCount' = disconnectCount + 1
    /\ IF shuttingDown
       THEN /\ out' = <<>>
            /\ UNCHANGED <<reconnectAttempts, reconnectTimers, exited>>
       ELSE /\ attemptReconnect(jitter)
            /\ out' = <<[op |-> "setTimeout", k |-> reconnectAttempts + 1]>>
            /\ UNCHANGED exited
    /\ UNCHANGED <<cfgVars, timerVars, stampVars, ws, connectCount,
                   shuttingDown, dataMap, now>>

\* ws.on('close'), marketWatcher.js:179-188
OnClose(i, jitter) ==
    /\ exited = Running
    /\ ev' = "close"
    /\ sock[i].st \in {"CONNECTING", "OPEN", "CLOSING"}
    /\ sock' = [sock EXCEPT ![i].st = "CLOSED"]
    /\ disconnectCount' = disconnectCount + 1
    /\ IF shuttingDown
       THEN /\ out' = <<>>
            /\ UNCHANGED <<reconnectAttempts, reconnectTimers, exited>>
       ELSE IF disconnectCount + 1 >= MAX_DISCONNECTS
       THEN /\ exited' = <<Num(1)>>
            /\ out' = <<[op |-> "exit", code |-> Num(1)]>>
            /\ UNCHANGED <<reconnectAttempts, reconnectTimers>>
       ELSE /\ attemptReconnect(jitter)
            /\ out' = <<[op |-> "setTimeout", k |-> reconnectAttempts + 1]>>
            /\ UNCHANGED exited
    /\ UNCHANGED <<cfgVars, timerVars, stampVars, ws, connectCount,
                   shuttingDown, dataMap, now>>

\* mutant: the callback tests the flag the wrong way round
ReconnectTimerFireWhenStopping(n) ==
    /\ exited = Running
    /\ ev' = "reconnectTimer"
    /\ n \in 1..Len(reconnectTimers)
    /\ reconnectTimers' = [j \in 1..(Len(reconnectTimers) - 1) |->
                              IF j < n THEN reconnectTimers[j]
                              ELSE reconnectTimers[j + 1]]
    /\ IF shuttingDown
       THEN connect /\ out' = connectOut
       ELSE out' = <<>> /\ UNCHANGED <<ws, sock, connectCount>>
    /\ UNCHANGED <<cfgVars, timerVars, stampVars, disconnectCount,
                   shuttingDown, reconnectAttempts, dataMap, exited, now>>

\* the callback attemptReconnect gave to setTimeout, marketWatcher.js:200
ReconnectTimerFire(n) ==
    /\ exited = Running
    /\ ev' = "reconnectTimer"
    /\ n \in 1..Len(reconnectTimers)
    /\ reconnectTimers' = [j \in 1..(Len(reconnectTimers) - 1) |->
                              IF j < n THEN reconnectTimers[j]
                              ELSE reconnectTimers[j + 1]]
    /\ IF ~shuttingDown
       THEN connect /\ out' = connectOut
       ELSE out' = <<>> /\ UNCHANGED <<ws, sock, connectCount>>
    /\ UNCHANGED <<cfgVars, timerVars, stampVars, disconnectCount,
                   shuttingDown, reconnectAttempts, dataMap, exited, now>>

----------------------------------------------------------------------------
(* Timer callbacks *)

\* mutant: the report clears the attempt counter it has printed
displayTickResetsAttempts ==
    /\ exited = Running
    /\ ev' = "displayTick"
    /\ armed(displayTimer)
    /\ out' = IF shuttingDown THEN <<>>
              ELSE <<[op |-> "report",
                      symbols |-> Len(SYMBOLS),
                      dataEntries |-> Cardinality(DOMAIN dataMap),
                      reconnectAttempts |-> reconnectAttempts,
                      connects |-> connectCount,
                      disconnects |-> disconnectCount]>>
    /\ reconnectAttempts' = IF shuttingDown THEN reconnectAttempts ELSE 0
    /\ UNCHANGED <<cfgVars, timerVars, stampVars, ws, sock, connectCount,
                   disconnectCount, shuttingDown, dataMap, reconnectTimers,
                   exited, now>>

\* the setInterval callback of scheduleDisplayLoop, marketWatcher.js:75-107
displayTick ==
    /\ exited = Running
    /\ ev' = "displayTick"
    /\ armed(displayTimer)
    /\ out' = IF shuttingDown THEN <<>>
              ELSE <<[op |-> "report",
                      symbols |-> Len(SYMBOLS),
                      dataEntries |-> Cardinality(DOMAIN dataMap),
                      reconnectAttempts |-> reconnectAttempts,
                      connects |-> connectCount,
                      disconnects |-> disconnectCount]>>
    /\ UNCHANGED <<progVars, now, arg, res>>

\* mutant: >= instead of > at the unsolicited-ping threshold
pingDueAtThreshold ==
    /\ lastPingTs # 0
    /\ now - lastPingTs >= UNSOLICITED_PING_AFTER_MS
    /\ ws # 0
    /\ sock[ws].st = "OPEN"

\* the unsolicited-ping condition, marketWatcher.js:115
pingDue ==
    /\ lastPingTs # 0
    /\ now - lastPingTs > UNSOLICITED_PING_AFTER_MS
    /\ ws # 0
    /\ sock[ws].st = "OPEN"

\* mutant: >= instead of > at the grace threshold
graceExceededAtThreshold == now - lastPingTs >= GRACE_NO_PING_MS

\* the stall condition, marketWatcher.js:119
graceExceeded == now - lastPingTs > GRACE_NO_PING_MS

\* the setInterval callback of scheduleHealthLoop, marketWatcher.js:112-124
healthTick ==
    /\ exited = Running
    /\ ev' = "healthTick"
    /\ armed(healthTimer)
    /\ IF shuttingDown
       THEN /\ out' = <<>>
            /\ UNCHANGED <<ws, sock, connectCount>>
       ELSE /\ out' = (IF pingDue
                       THEN <<[op |-> "ping", sock |-> ws, payload |-> <<>>]>>
                       ELSE <<>>)
                      \o (IF graceExceeded THEN safeReconnectOut ELSE <<>>)
            /\ IF graceExceeded THEN safeReconnect
               ELSE UNCHANGED <<ws, sock, connectCount>>
    /\ UNCHANGED <<cfgVars, timerVars, stampVars, disconnectCount,
                   shuttingDown, reconnectAttempts, dataMap, reconnectTimers,
                   exited, now>>

\* mutant: the hard-reset timer is periodic (it stays armed after firing)
hardResetFireRearms ==
    /\ exited = Running
    /\ ev' = "hardReset"
    /\ armed(hardResetTimer)
    /\ hardResetTimer' = [hardResetTimer EXCEPT !.at = now]
    /\ IF shuttingDown
       THEN /\ out' = <<>>
            /\ UNCHANGED <<ws, sock, connectCount>>
       ELSE /\ out' = safeReconnectOut
            /\ safeReconnect
    /\ UNCHANGED <<cfgVars, displayTimer, healthTimer, stampVars,
                   disconnectCount, shuttingDown, reconnectAttempts, dataMap,
                   reconnectTimers, exited, now>>

\* the setTimeout callback of scheduleHardReset, marketWatcher.js:129-133
hardResetFire ==
    /\ exited = Running
    /\ ev' = "hardReset"
    /\ armed(hardResetTimer)
    /\ hardResetTimer' = [hardResetTimer EXCEPT !.st = "fired"]
    /\ IF shuttingDown
       THEN /\ out' = <<>>
            /\ UNCHANGED <<ws, sock, connectCount>>
       ELSE /\ out' = safeReconnectOut
            /\ safeReconnect
    /\ UNCHANGED <<cfgVars, displayTimer, healthTimer, stampVars,
                   disconnectCount, shuttingDown, reconnectAttempts, dataMap,
                   reconnectTimers, exited, now>>

----------------------------------------------------------------------------
(* Startup and shutdown *)

\* mutant: the "already started" guard is missing
startMarketWatcherUnguarded ==
    /\ exited = Running
    /\ ev' = "start"
    /\ displayTimer' = newTimer
    /\ healthTimer' = newTimer
    /\ hardResetTimer' = newTimer
    /\ connect
    /\ out' = connectOut
    /\ UNCHANGED <<cfgVars, stampVars, disconnectCount, shuttingDown,
                   reconnectAttempts, dataMap, reconnectTimers, exited, now>>

\* mutant: a start that creates the session clears the shutting-down flag
startMarketWatcherClearsFlag ==
    /\ exited = Running
    /\ ev' = "start"
    /\ IF ws # 0
       THEN /\ out' = <<>>
            /\ UNCHANGED <<timerVars, ws, sock, connectCount, shuttingDown>>
       ELSE /\ displayTimer' = newTimer
            /\ healthTimer' = newTimer
            /\ hardResetTimer' = newTimer
            /\ shuttingDown' = FALSE
            /\ connect
            /\ out' = connectOut
    /\ UNCHANGED <<cfgVars, stampVars, disconnectCount,
                   reconnectAttempts, dataMap, reconnectTimers, exited, now>>

\* startMarketWatcher(), marketWatcher.js:204-211, with scheduleDisplayLoop
\* (73-75), scheduleHealthLoop (110-112) and scheduleHardReset (127-129)
startMarketWatcher ==
    /\ exited = Running
    /\ ev' = "start"
    /\ IF ws # 0
       THEN /\ out' = <<>>
            /\ UNCHANGED <<timerVars, ws, sock, connectCount>>
       ELSE /\ displayTimer' = newTimer
            /\ healthTimer' = newTimer
            /\ hardResetTimer' = newTimer
            /\ connect
            /\ out' = connectOut
    /\ UNCHANGED <<cfgVars, stampVars, disconnectCount, shuttingDown,
                   reconnectAttempts, dataMap, reconnectTimers, exited, now>>

\* mutant: an omitted code is taken as null (no default of 0)
stopCodeNullDefault(code) == IF code.t = "undefined" THEN Null ELSE code

\* code = 0 default parameter, marketWatcher.js:214
stopCode(code) == IF code.t = "undefined" THEN Num(0) ELSE code

\* if (code !== null) process.exit(code), marketWatcher.js:222: what exited
\* is afterwards.  process.exit takes an integer status; a string that is
\* not an integer is rejected with a TypeError by current Node releases (the
\* call throws, the process goes on) and taken as a status by older ones.
exitResults(code) ==
    IF code = Null THEN {Running}
    ELSE IF code.t = "str" THEN {Running, <<code>>}
    ELSE {<<code>>}

\* try { ws?.close() } catch {}, marketWatcher.js:220
closeOut == IF ws = 0 THEN <<>> ELSE <<[op |-> "close", sock |-> ws]>>

exitOut(r) == IF r = Running THEN <<>> ELSE <<[op |-> "exit", code |-> r[1]]>>

\* mutant: the "already shutting down" guard is missing
stopMarketWatcherUnguarded(code) ==
    /\ exited = Running
    /\ ev' = "stop"
    /\ shuttingDown' = TRUE
    /\ displayTimer' = clearTimer(displayTimer)
    /\ healthTimer' = clearTimer(healthTimer)
    /\ hardResetTimer' = clearTimer(hardResetTimer)
    /\ sock' = IF ws = 0 THEN sock
               ELSE [sock EXCEPT ![ws].st = wsClose(@)]
    /\ \E r \in exitResults(stopCode(code)) :
          /\ exited' = r
          /\ out' = closeOut \o exitOut(r)
    /\ UNCHANGED <<cfgVars, stampVars, ws, connectCount, disconnectCount,
                   reconnectAttempts, dataMap, reconnectTimers, now>>

\* stopMarketWatcher(code), marketWatcher.js:214-223
stopMarketWatcher(code) ==
    /\ exited = Running
    /\ ev' = "stop"
    /\ IF shuttingDown
       THEN /\ out' = <<>>
            /\ UNCHANGED <<shuttingDown, timerVars, sock, exited>>
       ELSE /\ shuttingDown' = TRUE
            /\ displayTimer' = clearTimer(displayTimer)
            /\ healthTimer' = clearTimer(healthTimer)
            /\ hardResetTimer' = clearTimer(hardResetTimer)
            /\ sock' = IF ws = 0 THEN sock
                       ELSE [sock EXCEPT ![ws].st = wsClose(@)]
            /\ \E r \in exitResults(stopCode(code)) :
                  /\ exited' = r
                  /\ out' = closeOut \o exitOut(r)
    /\ UNCHANGED <<cfgVars, stampVars, ws, connectCount, disconnectCount,
                   reconnectAttempts, dataMap, reconnectTimers, now>>

\* mutant: a signal shuts the engine down without terminating the process
OnSignalNoExit == stopMarketWatcher(Null)

\* process.on('SIGINT' | 'SIGTERM'), marketWatcher.js:225-226
OnSignal == stopMarketWatcher(Num(0))

\* time passes
Advance ==
    /\ exited = Running
    /\ ev' = "advance"
    /\ now < StartTime + MaxAdvance * ClockStep
    /\ now' = now + ClockStep
    /\ out' = <<>>
    /\ UNCHANGED <<progVars, arg, res>>

----------------------------------------------------------------------------
(* Health routes, marketWatcher.js:234-250, registered under the prefix    *)
(* /health (server.js:72)                                                  *)

\* the reply to a handler that returns body: status 200, and of the body
\* the properties the route's response schema declares (status)
reply200(body) ==
    <<[op |-> "reply", statusCode |-> 200, body |-> [status |-> body.status]]>>

\* GET /health/live, marketWatcher.js:235-241
GetLive ==
    /\ exited = Running
    /\ ev' = "GET /health/live"
    /\ out' = reply200([status |-> "alive"])
    /\ UNCHANGED <<progVars, now, arg, res>>

\* mutant: readiness follows the session (503 unless it is open)
GetReadyWhenOpen ==
    /\ exited = Running
    /\ ev' = "GET /health/ready"
    /\ out' = IF ws # 0 /\ sock[ws].st = "OPEN"
              THEN reply200([status |-> "ready"])
              ELSE <<[op |-> "reply", statusCode |-> 503,
                      body |-> [status |-> "not ready"]]>>
    /\ UNCHANGED <<progVars, now, arg, res>>

\* GET /health/ready, marketWatcher.js:243-249
GetReady ==
    /\ exited = Running
    /\ ev' = "GET /health/ready"
    /\ out' = reply200([status |-> "ready"])
    /\ UNCHANGED <<progVars, now, arg, res>>

----------------------------------------------------------------------------
(* The engine *)

Next ==
    \/ startMarketWatcher
    \/ \E code \in StopArgs : stopMarketWatcher(code)
    \/ OnSignal
    \/ \E i \in 1..Len(sock) : OnOpen(i)
    \/ \E i \in 1..Len(sock), payload \in Payloads : OnPing(i, payload)
    \/ \E i \in 1..Len(sock) : OnPong(i)
    \/ \E i \in 1..Len(sock), raw \in RunFrames : OnMessage(i, raw)
    \/ \E i \in 1..Len(sock), jitter \in RunJitters : OnClose(i, jitter)
    \/ \E n \in 1..Len(reconnectTimers) : ReconnectTimerFire(n)
    \/ displayTick
    \/ healthTick
    \/ hardResetFire
    \/ Advance

Spec == Init /\ [][Next]_vars

----------------------------------------------------------------------------
(* Subscription planning on its own: many environments, start only *)

MaxSymbols == 514

PlanCounts == {1, 2, 3, USE_ALL_MINI_THRESHOLD - 1, USE_ALL_MINI_THRESHOLD,
               USE_ALL_MINI_THRESHOLD + 1, MAX_STREAMS - 1, MAX_STREAMS,
               MAX_STREAMS + 1, MaxSymbols}

PlanTokens == {<<"A">>, <<" ","x","Y"," ">>, <<"b","T","c">>}

PlanSymbolInputs ==
    {Str(n, tok) : n \in PlanCounts, tok \in PlanTokens}
    \cup { <<>>, <<",">>, <<" ",","," ">>,
           <<"B","T","C","U","S","D","T",",","E","T","H","U","S","D","T">>,
           <<"e","t","h",",",",","B","T","C">> }

PlanTimeUnits ==
    { <<>>, Micro, <<"m","i","c","r","o">>, <<"M","I","C","R","O","S">>,
      <<"m","i","c">>, <<"m","i","l","l","i","s","e","c","o","n","d">> }

PlanEnvs == [SYMBOLS : PlanSymbolInputs, TIME_UNIT : PlanTimeUnits]

InitPlan ==
    /\ \E e \in PlanEnvs : InitWith(e)
    /\ arg = 0
    /\ res = 0

NextPlan == startMarketWatcher

SpecPlan == InitPlan /\ [][NextPlan]_vars

----------------------------------------------------------------------------
(* The backoff computation on its own: every attempt number up to MaxK *)

InitBackoff ==
    /\ \E e \in RunEnvs : InitWith(e)
    /\ arg \in 1..MaxK
    /\ res = 0

\* delay + jitter, marketWatcher.js:197-200
ApplyBackoff ==
    /\ res = 0
    /\ ev' = "backoff"
    /\ \E jitter \in Jitters : res' = backoffDelay(arg) + jitter
    /\ UNCHANGED <<progVars, now, out, arg>>

NextBackoff == ApplyBackoff

SpecBackoff == InitBackoff /\ [][NextBackoff]_vars

----------------------------------------------------------------------------
(* The snapshot cache on its own: one engine, every kind of frame *)

NextCache ==
    \/ startMarketWatcher
    \/ \E i \in 1..Len(sock) : OnOpen(i)
    \/ \E i \in 1..Len(sock), raw \in Frames : OnMessage(i, raw)
    \/ \E i \in 1..Len(sock), jitter \in RunJitters : OnClose(i, jitter)
    \/ \E n \in 1..Len(reconnectTimers) : ReconnectTimerFire(n)
    \/ Advance

SpecCache == Init /\ [][NextCache]_vars

----------------------------------------------------------------------------
(* The health monitor on its own: a clock fine enough to stand on both     *)
(* thresholds (50 s and 75 s are its second and third step)                *)

MaxFineAdvance == 4

FineStep == GRACE_NO_PING_MS - UNSOLICITED_PING_AFTER_MS

AdvanceFine ==
    /\ exited = Running
    /\ ev' = "advance"
    /\ now < StartTime + MaxFineAdvance * FineStep
    /\ now' = now + FineStep
    /\ out' = <<>>
    /\ UNCHANGED <<progVars, arg, res>>

NextHealth ==
    \/ startMarketWatcher
    \/ stopMarketWatcher(Null)
    \/ \E i \in 1..Len(sock) : OnOpen(i)
    \/ \E i \in 1..Len(sock) : OnPing(i, <<>>)
    \/ \E i \in 1..Len(sock) : OnClose(i, 0)
    \/ \E n \in 1..Len(reconnectTimers) : ReconnectTimerFire(n)
    \/ healthTick
    \/ AdvanceFine

SpecHealth == Init /\ [][NextHealth]_vars

----------------------------------------------------------------------------
(* The hard reset on its own: a clock of hours, and a hard-reset timer     *)
(* that fires when its interval has passed (time does not pass a timer     *)
(* that is due)                                                            *)

MaxHourAdvance == 5

HourStep == HARD_RESET_INTERVAL_MS \div 2

hardResetDue == now - hardResetTimer.at >= HARD_RESET_INTERVAL_MS

AdvanceHours ==
    /\ exited = Running
    /\ ev' = "advance"
    /\ now < StartTime + MaxHourAdvance * HourStep
    /\ armed(hardResetTimer) =>
           now + HourStep - hardResetTimer.at <= HARD_RESET_INTERVAL_MS
    /\ now' = now + HourStep
    /\ out' = <<>>
    /\ UNCHANGED <<progVars, arg, res>>

NextReset ==
    \/ startMarketWatcher
    \/ stopMarketWatcher(Null)
    \/ \E i \in 1..Len(sock) : OnOpen(i)
    \/ \E i \in 1..Len(sock) : OnPing(i, <<>>)
    \/ \E i \in 1..Len(sock) : OnClose(i, 0)
    \/ \E n \in 1..Len(reconnectTimers) : ReconnectTimerFire(n)
    \/ healthTick
    \/ hardResetDue /\ hardResetFire
    \/ AdvanceHours

SpecReset == Init /\ [][NextReset]_vars

----------------------------------------------------------------------------
(* The health routes beside the engine: requests in every engine state *)

NextRoutes ==
    \/ startMarketWatcher
    \/ \E code \in {Null, Num(0)} : stopMarketWatcher(code)
    \/ \E i \in 1..Len(sock) : OnOpen(i)
    \/ \E i \in 1..Len(sock), jitter \in RunJitters : OnClose(i, jitter)
    \/ \E n \in 1..Len(reconnectTimers) : ReconnectTimerFire(n)
    \/ healthTick
    \/ GetLive
    \/ GetReady
    \/ Advance

SpecRoutes == Init /\ [][NextRoutes]_vars

----------------------------------------------------------------------------
(* Reconnection with a reconnect timer that fires: setTimeout runs its     *)
(* callback once the delay has passed, unless the process has exited       *)

NextLive ==
    \/ startMarketWatcher
    \/ \E code \in {Null, Num(0)} : stopMarketWatcher(code)
    \/ \E i \in 1..Len(sock) : OnOpen(i)
    \/ \E i \in 1..Len(sock), raw \in RunFrames : OnMessage(i, raw)
    \/ \E i \in 1..Len(sock), jitter \in RunJitters : OnClose(i, jitter)
    \/ \E n \in 1..Len(reconnectTimers) : ReconnectTimerFire(n)
    \/ healthTick
    \/ hardResetFire

SpecLive ==
    /\ Init
    /\ [][NextLive]_vars
    /\ WF_vars(\E n \in 1..Len(reconnectTimers) : ReconnectTimerFire(n))

----------------------------------------------------------------------------
(* Properties: subscription planning *)

UrlPrefix == <<ENDPOINT, "?streams=">>
MicroFlag == "&timeUnit=MICROSECOND"
AggregateStream == "!miniTicker@arr"

isFlagged(url) == url[Len(url)] = MicroFlag
\* the stream list of a url: what is between the prefix and the flag
streamOf(url) == SubSeq(url, 3, IF isFlagged(url) THEN Len(url) - 1 ELSE Len(url))
isAggregate(url) == streamOf(url) = <<AggregateStream>>
streamNames(url) == {j \in 1..Len(streamOf(url)) : streamOf(url)[j] = "@miniTicker"}
isUpper(c) == \E j \in 1..Len(UpperChars) : UpperChars[j] = c

PlanOf(url, n) ==
    /\ SubSeq(url, 1, 2) = UrlPrefix
    /\ IF n > USE_ALL_MINI_THRESHOLD
       THEN isAggregate(url)
       ELSE /\ ~isAggregate(url)
            /\ Cardinality(streamNames(url)) = Min(n, MAX_STREAMS)
            /\ Cardinality(streamNames(url)) <= MAX_STREAMS
            /\ Cardinality(streamNames(url)) = n
            /\ \A j \in 1..Len(streamOf(url)) : ~isUpper(streamOf(url)[j])

\* C1: every session's url is the aggregate-all stream if more than 200
\* symbols were requested, and otherwise a multiplexed list of exactly
\* min(n, 512) = n lower-cased stream names, never more than 512.
C1_PlanByCount == \A i \in 1..Len(sock) : PlanOf(sock[i].url, Len(SYMBOLS))

C1_Witness ==
    /\ Len(sock) = 1
    /\ Len(SYMBOLS) > MAX_STREAMS
    /\ isAggregate(sock[1].url)

\* the requested symbols of the raw input, in input order
nonBlank(tok) == \E j \in 1..Len(tok) : tok[j] \notin WhiteSpace
requested(raw) ==
    SelectSeq(split(IF raw = <<>> THEN DEFAULT_SYMBOLS ELSE raw, ","), nonBlank)

isMicroHint(h) ==
    /\ Len(h) >= 5
    /\ \A j \in 1..5 : h[j] \in {<<"m","i","c","r","o">>[j], <<"M","I","C","R","O">>[j]}

StreamListOf(url, e) ==
    LET req == requested(e.SYMBOLS)
        names == IF streamOf(url) = <<>> THEN <<>> ELSE split(streamOf(url), "/")
    IN  /\ isFlagged(url) <=> isMicroHint(e.TIME_UNIT)
        /\ Len(req) <= USE_ALL_MINI_THRESHOLD =>
              /\ Len(names) = Len(req)
              /\ \A k \in 1..Len(req) :
                    names[k] = toLowerCase(trim(req[k])) \o <<"@miniTicker">>

BtcEth == <<"B","T","C","U","S","D","T",",","E","T","H","U","S","D","T">>
BtcEthStreams ==
    <<"b","t","c","u","s","d","t","@miniTicker","/",
      "e","t","h","u","s","d","t","@miniTicker">>

\* C2: a multiplexed stream list is the requested symbols in input order,
\* each as <lower-cased symbol>@miniTicker, joined by "/"; the microsecond
\* flag is there exactly when the time-unit hint is a microsecond variant.
C2_StreamList ==
    \A i \in 1..Len(sock) :
        /\ StreamListOf(sock[i].url, env)
        /\ env.SYMBOLS = BtcEth => streamOf(sock[i].url) = BtcEthStreams

C2_Witness ==
    /\ Len(sock) = 1
    /\ env.SYMBOLS = BtcEth
    /\ env.TIME_UNIT = Micro
    /\ sock[1].url = UrlPrefix \o BtcEthStreams \o <<MicroFlag>>

----------------------------------------------------------------------------
(* Properties: reconnect policy *)

BaseDelayTable == <<2000, 4000, 8000>>
claimedBase(k) == IF k <= 3 THEN BaseDelayTable[k] ELSE 15000

\* C3: the delay scheduled for attempt k is min(1000 * 2^min(k,5), 15000)
\* plus a jitter in [0, 500); the base is 8000 for k = 3, never decreases
\* with k and never exceeds 15000.
C3_BackoffDelay ==
    res # 0 =>
        /\ res - claimedBase(arg) \in 0..499
        /\ res - Min(1000 * 2 ^ Min(arg, 5), 15000) \in 0..499
        /\ arg = 3 => res \in 8000..8499
        /\ backoffDelay(arg) <= 15000
        /\ \A k \in 1..arg : backoffDelay(k) <= backoffDelay(arg)

C3_Witness == arg = 3 /\ res = 8499

----------------------------------------------------------------------------
(* Properties: counters and budget *)

live(i) == sock[i].st \in {"CONNECTING", "OPEN"}
closedNow(i) == sock[i].st # "CLOSED" /\ sock'[i].st = "CLOSED"

\* C4: the disconnect counter moves only by +1, exactly on a session's close
\* event, whatever closed it; no other event (an open included) changes it.
C4_DisconnectCounter ==
    [][/\ ev' = "close" => disconnectCount' = disconnectCount + 1
       /\ ev' # "close" => disconnectCount' = disconnectCount
       /\ (\E i \in 1..Len(sock) : closedNow(i))
             <=> disconnectCount' = disconnectCount + 1]_vars

\* a session opened after two earlier disconnects, counter still 2
C4_Witness ==
    /\ ev = "open"
    /\ disconnectCount = 2
    /\ sock[ws].st = "OPEN"

\* C5 as stated: whenever the counter has reached the budget the process has
\* been terminated with a non-zero status.
C5_Original ==
    disconnectCount >= MAX_DISCONNECTS =>
        /\ exited # Running
        /\ exited[1] # Num(0)

\* C5 amended: once the counter has reached the budget nothing connects or
\* schedules a reconnect any more, and if it was reached while the engine
\* was not shutting down the process has exited with status 1.
C5_Forfeit ==
    /\ [](disconnectCount >= MAX_DISCONNECTS /\ ~shuttingDown
              => exited = <<Num(1)>>)
    /\ [](connectCount <= MAX_DISCONNECTS)
    /\ [][disconnectCount' >= MAX_DISCONNECTS =>
              /\ Len(sock') = Len(sock)
              /\ connectCount' = connectCount
              /\ Len(reconnectTimers') <= Len(reconnectTimers)]_vars

\* five closes, no open in between (no open at all), fatal exit on the fifth
C5_Witness ==
    /\ ev = "close"
    /\ disconnectCount = MAX_DISCONNECTS
    /\ connectCount = MAX_DISCONNECTS
    /\ lastMessageTs = 0
    /\ reconnectAttempts = MAX_DISCONNECTS - 1
    /\ reconnectTimers = <<>>
    /\ exited = <<Num(1)>>

----------------------------------------------------------------------------
(* Properties: heartbeat *)

\* C6: a ping received on an Open session is answered in the same step by a
\* pong on that session with the same payload, and stamps last-ping and
\* last-pong time.
C6_PongEcho ==
    [][\A i \in 1..Len(sock), payload \in Payloads :
          ev' = "ping" /\ sock[i].st = "OPEN" /\ OnPing(i, payload) =>
              /\ out' = <<[op |-> "pong", sock |-> i, payload |-> payload]>>
              /\ lastPingTs' = now
              /\ lastPongTs' = now]_vars

\* a ping with a non-empty payload echoed on a reconnected session
C6_Witness ==
    /\ ev = "ping"
    /\ ws >= 2
    /\ sock[ws].st = "OPEN"
    /\ out = <<[op |-> "pong", sock |-> ws, payload |-> <<1, 2>>]>>
    /\ lastPingTs = now
    /\ lastPongTs = now
    /\ now > StartTime

----------------------------------------------------------------------------
(* Properties: snapshot cache *)

\* the ticker objects of a frame that carry a symbol, in frame order
unwrapped(v) ==
    IF v.t = "obj" /\ "data" \in DOMAIN v /\ v.data.t \in {"obj", "arr"}
    THEN v.data ELSE v
carriesSymbol(v) == v.t = "obj" /\ "s" \in DOMAIN v /\ v.s # ""
tickersOf(raw) ==
    IF ~raw.ok THEN <<>>
    ELSE LET v == unwrapped(raw.value)
         IN  IF v.t = "arr" THEN SelectSeq(v.items, carriesSymbol)
             ELSE IF carriesSymbol(v) THEN <<v>>
             ELSE <<>>

CacheSymbols == {"BTCUSDT", "ETHUSDT", ""}

\* C7: after a frame, each symbol the frame carries maps to the last ticker
\* of the frame with that symbol; every other symbol's entry (or absence) is
\* as before.
C7_LastWriteWins ==
    [][\A i \in 1..Len(sock), raw \in Frames :
          ev' = "message" /\ OnMessage(i, raw) =>
              LET tk == tickersOf(raw)
              IN  /\ DOMAIN dataMap' \subseteq CacheSymbols \ {""}
                  /\ \A sym \in CacheSymbols :
                        LET at == {j \in 1..Len(tk) : tk[j].s = sym}
                        IN  IF at # {}
                            THEN /\ sym \in DOMAIN dataMap'
                                 /\ dataMap'[sym] =
                                        tk[CHOOSE j \in at : \A k \in at : k <= j]
                            ELSE /\ sym \in DOMAIN dataMap' <=> sym \in DOMAIN dataMap
                                 /\ sym \in DOMAIN dataMap =>
                                        dataMap'[sym] = dataMap[sym]]_vars

\* both symbols cached, BTCUSDT holding the later of its two values
C7_Witness ==
    /\ ev = "message"
    /\ DOMAIN dataMap = {"BTCUSDT", "ETHUSDT"}
    /\ dataMap["BTCUSDT"] = Ticker("BTCUSDT", 2)
    /\ dataMap["ETHUSDT"] = Ticker("ETHUSDT", 1)

----------------------------------------------------------------------------
(* Properties: one session at a time *)

\* C8: at most one session is Connecting/Open; a new session is created only
\* when every earlier one has had its close event; at most one reconnect is
\* pending and only while no session is alive; a forced termination that
\* finds the current session already closed changes no session, no counter
\* and no pending reconnect.
C8_SingleSession ==
    /\ [](Cardinality({i \in 1..Len(sock) : live(i)}) <= 1)
    /\ [](Len(reconnectTimers) <= 1)
    /\ [](reconnectTimers # <<>> =>
              \A i \in 1..Len(sock) : sock[i].st = "CLOSED")
    /\ [][/\ Len(sock') > Len(sock) =>
                \A i \in 1..Len(sock) : sock[i].st = "CLOSED"
          /\ (ev' \in {"healthTick", "hardReset"} /\ ws # 0
                /\ sock[ws].st = "CLOSED") =>
                /\ sock' = sock
                /\ ws' = ws
                /\ connectCount' = connectCount
                /\ disconnectCount' = disconnectCount
                /\ reconnectTimers' = reconnectTimers]_vars

\* the health tick force-terminated while the backoff timer was pending
C8_Witness ==
    /\ ev = "healthTick"
    /\ out = <<[op |-> "terminate", sock |-> ws]>>
    /\ sock[ws].st = "CLOSED"
    /\ Len(reconnectTimers) = 1
    /\ disconnectCount = 1

----------------------------------------------------------------------------
(* Properties: start and stop *)

\* C9: the first start (no session object yet) arms the three timers and
\* makes exactly one connection attempt; a start while a session object
\* exists changes nothing.
C9_StartIdempotent ==
    [][ev' = "start" =>
          IF ws = 0
          THEN /\ armed(displayTimer') /\ armed(healthTimer')
               /\ armed(hardResetTimer')
               /\ Len(sock') = 1
               /\ sock'[1].st = "CONNECTING"
               /\ ws' = 1
               /\ connectCount' = connectCount + 1
          ELSE /\ UNCHANGED progVars
               /\ out' = <<>>]_vars

\* a second start on a running engine, later than the first
C9_Witness ==
    /\ ev = "start"
    /\ ws = 1
    /\ out = <<>>
    /\ connectCount = 1
    /\ sock[1].st = "OPEN"
    /\ now > StartTime
    /\ hardResetTimer = [st |-> "armed", at |-> StartTime]

\* C10: the first stop sets the flag, leaves none of the three timers armed
\* and asks the current session to close; a timer that is not armed does not
\* tick; a stop while already shutting down changes nothing, closes nothing
\* and does not exit.
C10_StopIdempotent ==
    [][/\ ev' = "stop" =>
             IF shuttingDown
             THEN /\ UNCHANGED progVars
                  /\ out' = <<>>
             ELSE /\ shuttingDown'
                  /\ ~armed(displayTimer') /\ ~armed(healthTimer')
                  /\ ~armed(hardResetTimer')
                  /\ ws # 0 =>
                        /\ out'[1] = [op |-> "close", sock |-> ws]
                        /\ sock[ws].st # "CLOSED" => sock'[ws].st = "CLOSING"
       /\ ~armed(displayTimer) => ev' # "displayTick"
       /\ ~armed(healthTimer) => ev' # "healthTick"
       /\ ~armed(hardResetTimer) => ev' # "hardReset"]_vars

\* a later stop on an engine that an earlier stop(null) left running
C10_Witness ==
    /\ ev = "stop"
    /\ shuttingDown
    /\ out = <<>>
    /\ ws # 0
    /\ sock[ws].st = "CLOSING"
    /\ displayTimer.st = "cleared"
    /\ healthTimer.st = "cleared"
    /\ hardResetTimer.st = "cleared"
    /\ exited = Running

----------------------------------------------------------------------------
(* Properties: the exit code of stop *)

\* C11 as stated: a stop called with no exit code, like one called with an
\* empty (null) one, shuts the engine down without terminating the process.
C11_Original ==
    [][\A code \in {Undefined, Null} :
          ev' = "stop" /\ ~shuttingDown /\ stopMarketWatcher(code)
              => exited' = Running]_vars

\* C11 amended: a first stop sets the flag, leaves no timer armed and asks
\* the session to close, whatever the code; it leaves the process running
\* when the code is null, and terminates it with the code when the code is a
\* number, and with 0 when no code is passed at all.  Stop terminates the
\* process only on a first call with a code other than null.
C11_OptOut ==
    [][/\ \A code \in StopArgs :
             ev' = "stop" /\ ~shuttingDown /\ stopMarketWatcher(code) =>
                 /\ shuttingDown'
                 /\ ~armed(displayTimer') /\ ~armed(healthTimer')
                 /\ ~armed(hardResetTimer')
                 /\ ws # 0 =>
                       /\ out'[1] = [op |-> "close", sock |-> ws]
                       /\ sock[ws].st # "CLOSED" => sock'[ws].st = "CLOSING"
                 /\ code = Null =>
                       /\ exited' = Running
                       /\ \A j \in 1..Len(out') : out'[j].op # "exit"
                 /\ code.t = "num" =>
                       /\ exited' = <<code>>
                       /\ out'[Len(out')] = [op |-> "exit", code |-> code]
                 /\ code = Undefined =>
                       /\ exited' = <<Num(0)>>
                       /\ out'[Len(out')] = [op |-> "exit", code |-> Num(0)]
       /\ ev' = "stop" /\ exited' # Running =>
             /\ ~shuttingDown
             /\ \E code \in StopArgs \ {Null} : stopMarketWatcher(code)]_vars

\* stop(null) on an engine whose session is open: shut down, still running
C11_Witness ==
    /\ ev = "stop"
    /\ shuttingDown
    /\ exited = Running
    /\ ws # 0
    /\ out = <<[op |-> "close", sock |-> ws]>>
    /\ sock[ws].st = "CLOSING"
    /\ ~armed(displayTimer) /\ ~armed(healthTimer) /\ ~armed(hardResetTimer)
    /\ connectCount = 1
    /\ lastMessageTs # 0

----------------------------------------------------------------------------
(* Properties: after shutdown, and signals *)

\* a timer handle that is armed after the step and was not before, or was
\* armed anew
scheduled(t, u) == armed(u) /\ u # t

\* C12: once the shutting-down flag is set, no step creates a session
\* (no Connecting transition, whether from a reconnect timer, a forced
\* termination or a start call) and no step schedules a timer.
C12_NoWorkAfterShutdown ==
    [][shuttingDown =>
          /\ Len(sock') = Len(sock)
          /\ connectCount' = connectCount
          /\ \A i \in 1..Len(sock) : sock'[i].st # "CONNECTING"
          /\ ~scheduled(displayTimer, displayTimer')
          /\ ~scheduled(healthTimer, healthTimer')
          /\ ~scheduled(hardResetTimer, hardResetTimer')
          /\ Len(reconnectTimers') <= Len(reconnectTimers)]_vars

\* C13 as stated: a signal, in whatever state the engine is, ends with the
\* flag set and the process terminated with status 0.
C13_Original ==
    [][ev' = "stop" /\ OnSignal =>
          /\ shuttingDown'
          /\ exited' = <<Num(0)>>]_vars

\* C13 amended: a signal delivered while the engine is not shutting down
\* sets the flag, leaves no timer armed, asks the session to close and
\* terminates the process with status 0; a signal delivered while it is
\* shutting down (after a stop that opted out of termination) changes
\* nothing and the process goes on.
C13_SignalStop ==
    [][ev' = "stop" /\ OnSignal =>
          IF shuttingDown
          THEN /\ UNCHANGED progVars
               /\ out' = <<>>
               /\ exited' = Running
          ELSE /\ shuttingDown'
               /\ ~armed(displayTimer') /\ ~armed(healthTimer')
               /\ ~armed(hardResetTimer')
               /\ ws # 0 =>
                     /\ out'[1] = [op |-> "close", sock |-> ws]
                     /\ sock[ws].st # "CLOSED" => sock'[ws].st = "CLOSING"
               /\ exited' = <<Num(0)>>
               /\ out'[Len(out')] = [op |-> "exit", code |-> Num(0)]]_vars

\* a signal while a reconnect was pending: terminated with status 0
C13_Witness ==
    /\ ev = "stop"
    /\ exited = <<Num(0)>>
    /\ out = <<[op |-> "close", sock |-> ws], [op |-> "exit", code |-> Num(0)]>>
    /\ shuttingDown
    /\ sock[ws].st = "CLOSED"
    /\ Len(reconnectTimers) = 1
    /\ ~armed(displayTimer) /\ ~armed(healthTimer) /\ ~armed(hardResetTimer)

----------------------------------------------------------------------------
(* Properties: health monitor *)

\* a ping of the peer has been observed, and the time since the last one
pingSeen == lastPingTs # 0
silence == now - lastPingTs

\* the interval timer can deliver a tick: its period has passed since it
\* was armed
tickDue == now - healthTimer.at >= HEALTH_INTERVAL_MS

terminations(o) == {j \in 1..Len(o) : o[j].op = "terminate"}
pingsSent(o) == {j \in 1..Len(o) : o[j].op = "ping"}

\* C14: on a health tick taken while not shutting down, a forced termination
\* of the current session is invoked, exactly once, if the time since the
\* last observed ping of the peer exceeds 75 s, whatever the state of the
\* transport; otherwise the tick invokes no forced termination.
C14_GraceTermination ==
    [][ev' = "healthTick" /\ ~shuttingDown /\ tickDue =>
          IF pingSeen /\ silence > 75000
          THEN /\ Cardinality(terminations(out')) = 1
               /\ \E j \in terminations(out') :
                     out'[j] = [op |-> "terminate", sock |-> ws]
          ELSE /\ terminations(out') = {}
               /\ sock' = sock]_vars

\* what holds of the health tick: once a ping has been observed the forced
\* termination is invoked exactly when the silence exceeds 75 s, exactly
\* once, on the current session whatever its ready state, and nothing is
\* connected; before the first ping every tick invokes it.
C14_AfterFirstPing ==
    [][ev' = "healthTick" /\ ~shuttingDown =>
          /\ ws # 0
          /\ Len(sock') = Len(sock)
          /\ Cardinality(terminations(out')) <= 1
          /\ IF ~pingSeen \/ silence > 75000
             THEN /\ \E j \in terminations(out') :
                        out'[j] = [op |-> "terminate", sock |-> ws]
                  /\ sock' = [sock EXCEPT ![ws].st =
                                 IF @ = "CLOSED" THEN "CLOSED" ELSE "CLOSING"]
             ELSE /\ terminations(out') = {}
                  /\ sock' = sock]_vars

\* the first session, open for 25 s, no ping observed yet, terminated by a
\* health tick
C14_Witness ==
    /\ ev = "healthTick"
    /\ ~shuttingDown
    /\ ~pingSeen
    /\ now = StartTime + FineStep
    /\ lastMessageTs = now
    /\ ws = 1
    /\ connectCount = 1
    /\ disconnectCount = 0
    /\ sock[1].st = "CLOSING"
    /\ out = <<[op |-> "terminate", sock |-> 1]>>

----------------------------------------------------------------------------
(* Properties: hard reset *)

\* C16: the hard-reset timer is armed only by the first start (no session
\* object yet) and never again; it fires only while armed and is spent by
\* firing; when it fires while not shutting down it force-terminates the
\* current session, whatever the heartbeat times, and connects nothing
\* itself; the close of a session, while not shutting down and below the
\* budget, schedules a reconnect.
C16_HardResetOneShot ==
    [][/\ scheduled(hardResetTimer, hardResetTimer') =>
             /\ ev' = "start"
             /\ ws = 0
             /\ hardResetTimer.st = "null"
       /\ ev' = "hardReset" =>
             /\ armed(hardResetTimer)
             /\ hardResetTimer'.st = "fired"
             /\ Len(sock') = Len(sock)
             /\ ~shuttingDown =>
                   /\ out' = <<[op |-> "terminate", sock |-> ws]>>
                   /\ live(ws) => sock'[ws].st = "CLOSING"
       /\ hardResetTimer.st = "fired" =>
             /\ hardResetTimer' = hardResetTimer
             /\ ev' # "hardReset"
       /\ (ev' = "close" /\ ~shuttingDown
             /\ disconnectCount + 1 < MAX_DISCONNECTS) =>
             /\ Len(reconnectTimers') = Len(reconnectTimers) + 1
             /\ exited' = Running]_vars

\* the timer fired on an open session a ping had just been answered on
C16_Witness ==
    /\ ev = "hardReset"
    /\ hardResetTimer.st = "fired"
    /\ out = <<[op |-> "terminate", sock |-> ws]>>
    /\ sock[ws].st = "CLOSING"
    /\ ~shuttingDown
    /\ lastPingTs = now
    /\ lastPongTs = now
    /\ now > StartTime

\* the time the current session has been open for (the open event stamps
\* lastMessageTs, and no data frame arrives under SpecReset)
openFor == now - lastMessageTs

\* C17: while the engine is not shutting down no session, the first one or
\* one created by a reconnect, is Open for longer than the hard-reset
\* interval without being force-terminated.
C17_SessionLifetime ==
    (~shuttingDown /\ ws # 0 /\ sock[ws].st = "OPEN")
        => openFor <= HARD_RESET_INTERVAL_MS

\* the session that replaced the hard-reset one, open for 18 h, the peer's
\* ping just answered, the timer spent
C17_Witness ==
    /\ ws = 2
    /\ sock[2].st = "OPEN"
    /\ hardResetTimer.st = "fired"
    /\ openFor = HARD_RESET_INTERVAL_MS + HourStep
    /\ lastPingTs = now
    /\ disconnectCount = 1
    /\ ~shuttingDown

----------------------------------------------------------------------------
(* Properties: health routes *)

----------------------------------------------------------------------------
(* Properties: reconnect attempts *)

reconnectScheduled == Len(reconnectTimers') = Len(reconnectTimers) + 1

\* C19: the reconnect-attempt counter is 0 at load, is set to 0 by every
\* open event, is incremented by exactly 1 by every close that schedules a
\* reconnect, and is changed by nothing else (a failed attempt included);
\* the reconnect a close schedules carries the incremented counter as its
\* k, so the first one after an open or after start has k = 1 and each
\* further one without an open in between one more.
C19_AttemptCounter ==
    /\ [](reconnectAttempts \in 0..(MAX_DISCONNECTS - 1))
    /\ []((connectCount = 0 \/ ev = "open") => reconnectAttempts = 0)
    /\ [][/\ ev' = "open" => reconnectAttempts' = 0
          /\ reconnectScheduled <=> (ev' = "close" /\ ~shuttingDown
                                       /\ exited' = Running)
          /\ reconnectScheduled =>
                /\ reconnectAttempts' = reconnectAttempts + 1
                /\ reconnectTimers'[Len(reconnectTimers')].k
                       = reconnectAttempts + 1
                /\ reconnectTimers'[Len(reconnectTimers')].delay
                       - Min(1000 * 2 ^ Min(reconnectAttempts + 1, 5), 15000)
                           \in 0..499
          /\ (ev' # "open" /\ ~reconnectScheduled) =>
                reconnectAttempts' = reconnectAttempts]_vars

\* four closes and never an open: the fourth reconnect has k = 4
C19_Witness ==
    /\ ev = "close"
    /\ lastMessageTs = 0
    /\ disconnectCount = 4
    /\ reconnectAttempts = 4
    /\ reconnectTimers = <<[k |-> 4, delay |-> 15499]>>

\* C20: whenever a session has closed while the engine is not shutting
\* down and the disconnect count is below the budget, a new connection
\* attempt follows or shutdown is requested first (the reconnect timer
\* being one that fires).
C20_ReconnectLiveness ==
    \A n \in 0..MAX_DISCONNECTS :
        (/\ ev = "close" /\ ~shuttingDown
         /\ disconnectCount < MAX_DISCONNECTS
         /\ connectCount = n)
            ~> (shuttingDown
                \/ /\ connectCount = n + 1
                   /\ Len(sock) = n + 1
                   /\ sock[ws].st # "CLOSED" => ws = n + 1)

\* the third session, connecting, created by the reconnect timer
C20_Witness ==
    /\ ev = "reconnectTimer"
    /\ out = <<[op |-> "connect", sock |-> 3]>>
    /\ ws = 3
    /\ sock[3].st = "CONNECTING"
    /\ connectCount = 3
    /\ disconnectCount = 2
    /\ reconnectTimers = <<>>
    /\ ~shuttingDown

----------------------------------------------------------------------------
(* Properties: bounded retry *)

\* the run has come to rest: shut down, terminated, or in a session that
\* has not been closed
settled ==
    \/ shuttingDown
    \/ exited # Running
    \/ ws # 0 /\ sock[ws].st # "CLOSED"

\* C21: the connect counter, which counts the sessions created, never
\* exceeds the disconnect budget; and every run that has connected at all
\* is, from some point on, for ever shut down, terminated, or in a session
\* that is not closed again.
C21_BoundedRetry ==
    /\ [](connectCount <= MAX_DISCONNECTS /\ Len(sock) = connectCount)
    /\ <>[](connectCount > 0 => settled)

\* the fifth session, the last one the budget allows, is open
C21_Witness ==
    /\ connectCount = MAX_DISCONNECTS
    /\ disconnectCount = MAX_DISCONNECTS - 1
    /\ ws = MAX_DISCONNECTS
    /\ sock[ws].st = "OPEN"
    /\ reconnectAttempts = 0
    /\ ~shuttingDown
    /\ exited = Running

----------------------------------------------------------------------------
(* Properties: frames that are not tickers *)

\* text that is not JSON, JSON null (reading its data property throws),
\* a JSON number, an object without a symbol or with an empty one
Malformed ==
    {Garbage, Text(Null), Text(Num(7)), Text(NoSymbol(2)), Text(Ticker("", 1))}

\* C22: a malformed frame stamps the last-message time and changes nothing
\* else: not the cache, the counters, the ping and pong times, any
\* session's state, the timers, the flag or a pending reconnect; it sends
\* nothing and the process goes on.
C22_MalformedFrame ==
    [][\A i \in 1..Len(sock), raw \in Malformed :
          ev' = "message" /\ OnMessage(i, raw) =>
              /\ lastMessageTs' = now
              /\ dataMap' = dataMap
              /\ sock' = sock /\ ws' = ws
              /\ connectCount' = connectCount
              /\ disconnectCount' = disconnectCount
              /\ reconnectAttempts' = reconnectAttempts
              /\ lastPingTs' = lastPingTs /\ lastPongTs' = lastPongTs
              /\ reconnectTimers' = reconnectTimers
              /\ UNCHANGED <<timerVars, shuttingDown>>
              /\ exited' = Running
              /\ out' = <<>>]_vars

\* a frame arrived on the second session, later than the last ticker, and
\* the cache holds what it held
C22_Witness ==
    /\ ev = "message"
    /\ ws = 2
    /\ sock[2].st = "OPEN"
    /\ lastMessageTs = now
    /\ now > StartTime
    /\ DOMAIN dataMap = {"ETHUSDT"}
    /\ disconnectCount = 1
    /\ exited = Running

----------------------------------------------------------------------------
(* Properties: the cache only grows *)

\* C23: no step of the engine removes a symbol from the cache: whatever the
\* event (message, close, reconnect, forced termination, tick, start, stop,
\* signal), the symbols cached before it are cached after it.
C23_NeverDeleted ==
    [][DOMAIN dataMap \subseteq DOMAIN dataMap']_vars

\* a snapshot taken before two sessions were lost is still cached when the
\* engine is stopped during the third
C23_Witness ==
    /\ ev = "stop"
    /\ shuttingDown
    /\ exited = Running
    /\ connectCount = 3
    /\ disconnectCount = 2
    /\ sock[3].st = "CLOSING"
    /\ "BTCUSDT" \in DOMAIN dataMap
    /\ lastMessageTs = StartTime
    /\ now > StartTime

----------------------------------------------------------------------------
(* Properties: the telemetry tick *)

\* C24: a telemetry tick changes nothing: the session and every socket, the
\* three counters, the three timestamps, the cache, the shutting-down flag,
\* the three timers and the pending reconnects are after it what they were
\* before it, and the process goes on; all it does is write a report.
C24_TelemetryObserves ==
    [][ev' = "displayTick" =>
          /\ ws' = ws /\ sock' = sock
          /\ connectCount' = connectCount
          /\ disconnectCount' = disconnectCount
          /\ reconnectAttempts' = reconnectAttempts
          /\ lastMessageTs' = lastMessageTs
          /\ lastPingTs' = lastPingTs
          /\ lastPongTs' = lastPongTs
          /\ dataMap' = dataMap
          /\ shuttingDown' = shuttingDown
          /\ UNCHANGED timerVars
          /\ reconnectTimers' = reconnectTimers
          /\ exited' = exited
          /\ \A j \in 1..Len(out') : out'[j].op = "report"]_vars

\* a tick between a close and its reconnect: it reports the counters and
\* the reconnect is still pending
C24_Witness ==
    /\ ev = "displayTick"
    /\ Len(out) = 1
    /\ out[1].op = "report"
    /\ out[1].connects = 2
    /\ out[1].disconnects = 2
    /\ out[1].reconnectAttempts = 1
    /\ out[1].dataEntries = 1
    /\ Len(reconnectTimers) = 1
    /\ sock[ws].st = "CLOSED"

----------------------------------------------------------------------------
(* Properties: callbacks while shutting down *)

\* the callbacks that test the flag first
flagTested == {"displayTick", "healthTick", "hardReset", "reconnectTimer"}

\* C25: while the shutting-down flag is set, a telemetry tick, a health
\* tick, a hard-reset firing and a reconnect timer send nothing and change
\* no variable of the engine (the timer that fired is spent, no timer is
\* armed), and a close only increments the disconnect counter: it schedules
\* no reconnect and does not terminate the process, even when the counter
\* reaches the budget.
C25_IdleAfterShutdown ==
    [][shuttingDown =>
          /\ ev' \in flagTested =>
                /\ out' = <<>>
                /\ ws' = ws /\ sock' = sock
                /\ connectCount' = connectCount
                /\ disconnectCount' = disconnectCount
                /\ reconnectAttempts' = reconnectAttempts
                /\ UNCHANGED stampVars
                /\ dataMap' = dataMap
                /\ shuttingDown' /\ exited' = exited
                /\ UNCHANGED <<displayTimer, healthTimer>>
                /\ hardResetTimer' \in
                       {hardResetTimer, [hardResetTimer EXCEPT !.st = "fired"]}
                /\ Len(reconnectTimers') <= Len(reconnectTimers)
          /\ ev' = "close" =>
                /\ out' = <<>>
                /\ disconnectCount' = disconnectCount + 1
                /\ ws' = ws /\ Len(sock') = Len(sock)
                /\ \A i \in 1..Len(sock) :
                       sock'[i].st \in {sock[i].st, "CLOSED"}
                /\ connectCount' = connectCount
                /\ reconnectAttempts' = reconnectAttempts
                /\ reconnectTimers' = reconnectTimers
                /\ UNCHANGED <<stampVars, timerVars>>
                /\ dataMap' = dataMap
                /\ shuttingDown' /\ exited' = Running]_vars

\* the fifth close, of a session that was being closed by stop: the counter
\* is at the budget, nothing is scheduled and the process goes on
C25_Witness ==
    /\ ev = "close"
    /\ shuttingDown
    /\ disconnectCount = MAX_DISCONNECTS
    /\ connectCount = MAX_DISCONNECTS
    /\ sock[ws].st = "CLOSED"
    /\ reconnectAttempts = 0
    /\ reconnectTimers = <<>>
    /\ out = <<>>
    /\ exited = Running

----------------------------------------------------------------------------
(* Properties: the shutting-down flag *)

\* C26: the flag is false when the module is loaded, only a stop sets it,
\* and once it is set every step (start, open, close, frames, timers,
\* signals, further stops) leaves it set.
C26_FlagIrreversible ==
    /\ ~shuttingDown
    /\ [][/\ shuttingDown => shuttingDown'
          /\ ~shuttingDown /\ shuttingDown' => ev' = "stop"]_vars

\* a start that followed a stop without termination: it has created the
\* first session and the flag is still set
C26_Witness ==
    /\ ev = "start"
    /\ shuttingDown
    /\ exited = Running
    /\ ws = 1
    /\ sock[1].st = "CONNECTING"
    /\ armed(healthTimer)

----------------------------------------------------------------------------
(* Properties: whose silence the health monitor measures *)

\* the time since the engine was started: start arms the health timer and
\* creates the first session (lines 207-209), and every other session is
\* created later, so no session is older than this
sinceStart == now - healthTimer.at

\* C27: a health tick force-terminates a session only when that session has
\* gone more than 75 s without a ping of the peer.  No session has existed
\* for longer than the engine has run, so in the first 75 s after start no
\* tick terminates a session, whether or not a ping has been seen yet.
C27_OwnSilence ==
    [][ev' = "healthTick" /\ ~shuttingDown /\ tickDue
          /\ terminations(out') # {}
          => sinceStart > GRACE_NO_PING_MS]_vars

\* 50 s after start the first session is still connecting, no ping can
\* have reached it, and a health tick terminates it
C27_Witness ==
    /\ ev = "healthTick"
    /\ ~shuttingDown
    /\ lastPingTs = 0
    /\ lastMessageTs = 0
    /\ sinceStart = UNSOLICITED_PING_AFTER_MS
    /\ connectCount = 1
    /\ disconnectCount = 0
    /\ sock[1].st = "CLOSING"
    /\ out = <<[op |-> "terminate", sock |-> 1]>>

----------------------------------------------------------------------------
(* Properties: the counters *)

\* C28: at most one session has been created and not yet closed
\* (0 <= connectCount - disconnectCount <= 1), the attempt counter never
\* exceeds the disconnect counter, and the connect counter moves only by
\* one, in the step that creates a session (a new socket, Connecting), and
\* in every such step.
C28_CounterRelation ==
    /\ [](/\ 0 <= connectCount - disconnectCount
          /\ connectCount - disconnectCount <= 1
          /\ reconnectAttempts <= disconnectCount)
    /\ [][/\ connectCount' # connectCount =>
                /\ connectCount' = connectCount + 1
                /\ Len(sock') = Len(sock) + 1
                /\ sock'[Len(sock')].st = "CONNECTING"
                /\ ev' \in {"start", "reconnectTimer"}
          /\ Len(sock') # Len(sock) => connectCount' = connectCount + 1]_vars

\* the third session has just been created; the two before it closed
\* without opening, so the attempt counter equals the disconnect counter
C28_Witness ==
    /\ ev = "reconnectTimer"
    /\ connectCount = 3
    /\ disconnectCount = 2
    /\ reconnectAttempts = 2
    /\ ws = 3
    /\ sock[3].st = "CONNECTING"
    /\ exited = Running

----------------------------------------------------------------------------
(* Transport calls that throw.  Each call the engine makes on the socket   *)
(* is wrapped in try/catch (lines 117, 138, 157, 220); a call that throws  *)
(* has no effect on the socket, and the catch block is empty.  These are   *)
(* the handlers of the engine taken along the catch path.                  *)

caughtOut(call) == <<[op |-> "caught", call |-> call]>>

\* mutant: the exception of ws.close() leaves stopMarketWatcher (no catch):
\* the flag is set and the timers are cleared, process.exit is not reached
stopMarketWatcherCloseEscapes(code) ==
    /\ exited = Running
    /\ ev' = "stop"
    /\ ~shuttingDown
    /\ ws # 0
    /\ shuttingDown' = TRUE
    /\ displayTimer' = clearTimer(displayTimer)
    /\ healthTimer' = clearTimer(healthTimer)
    /\ hardResetTimer' = clearTimer(hardResetTimer)
    /\ out' = caughtOut("close")
    /\ UNCHANGED <<cfgVars, stampVars, ws, sock, connectCount, disconnectCount,
                   reconnectAttempts, dataMap, reconnectTimers, exited, now>>

\* stopMarketWatcher(code), marketWatcher.js:214-223, when ws.close() throws
stopMarketWatcherCloseFails(code) ==
    /\ exited = Running
    /\ ev' = "stop"
    /\ ~shuttingDown
    /\ ws # 0
    /\ shuttingDown' = TRUE
    /\ displayTimer' = clearTimer(displayTimer)
    /\ healthTimer' = clearTimer(healthTimer)
    /\ hardResetTimer' = clearTimer(hardResetTimer)
    /\ \E r \in exitResults(stopCode(code)) :
          /\ exited' = r
          /\ out' = caughtOut("close") \o exitOut(r)
    /\ UNCHANGED <<cfgVars, stampVars, ws, sock, connectCount, disconnectCount,
                   reconnectAttempts, dataMap, reconnectTimers, now>>

\* ws.on('ping'), marketWatcher.js:155-158, when ws.pong() throws: the
\* assignment to lastPongTs after it in the try block is skipped
OnPingPongFails(i, payload) ==
    /\ exited = Running
    /\ ev' = "ping"
    /\ sock[i].st \in {"OPEN", "CLOSING"}
    /\ lastPingTs' = now
    /\ out' = caughtOut("pong")
    /\ UNCHANGED <<cfgVars, timerVars, ws, sock, connectCount, disconnectCount,
                   lastMessageTs, lastPongTs, shuttingDown, reconnectAttempts,
                   dataMap, reconnectTimers, exited, now>>

\* the health tick, marketWatcher.js:112-124 with safeReconnect (136-140),
\* when ws.ping() throws (pingFails), ws.terminate() throws
\* (terminateFails), or both
healthTickFails(pingFails, terminateFails) ==
    /\ exited = Running
    /\ ev' = "healthTick"
    /\ armed(healthTimer)
    /\ ~shuttingDown
    /\ pingFails \/ terminateFails
    /\ pingFails => pingDue
    /\ terminateFails => graceExceeded /\ ws # 0
    /\ out' = (IF pingDue
               THEN IF pingFails THEN caughtOut("ping")
                    ELSE <<[op |-> "ping", sock |-> ws, payload |-> <<>>]>>
               ELSE <<>>)
              \o (IF graceExceeded
                  THEN IF terminateFails THEN caughtOut("terminate")
                       ELSE safeReconnectOut
                  ELSE <<>>)
    /\ IF graceExceeded /\ ~terminateFails THEN safeReconnect
       ELSE UNCHANGED <<ws, sock, connectCount>>
    /\ UNCHANGED <<cfgVars, timerVars, stampVars, disconnectCount,
                   shuttingDown, reconnectAttempts, dataMap, reconnectTimers,
                   exited, now>>

\* the hard-reset callback, marketWatcher.js:129-133 with safeReconnect
\* (136-140), when ws.terminate() throws
hardResetFireTerminateFails ==
    /\ exited = Running
    /\ ev' = "hardReset"
    /\ armed(hardResetTimer)
    /\ ~shuttingDown
    /\ ws # 0
    /\ hardResetTimer' = [hardResetTimer EXCEPT !.st = "fired"]
    /\ out' = caughtOut("terminate")
    /\ UNCHANGED <<cfgVars, displayTimer, healthTimer, stampVars, ws, sock,
                   connectCount, disconnectCount, shuttingDown,
                   reconnectAttempts, dataMap, reconnectTimers, exited, now>>

FaultStopArgs == {Undefined, Null, Num(1)}

NextFaults ==
    \/ startMarketWatcher
    \/ \E code \in FaultStopArgs : stopMarketWatcher(code)
    \/ \E i \in 1..Len(sock) : OnOpen(i)
    \/ \E i \in 1..Len(sock) : OnPing(i, <<>>)
    \/ \E i \in 1..Len(sock) : OnClose(i, 0)
    \/ \E n \in 1..Len(reconnectTimers) : ReconnectTimerFire(n)
    \/ healthTick
    \/ AdvanceFine
    \/ \E code \in FaultStopArgs : stopMarketWatcherCloseFails(code)
    \/ \E i \in 1..Len(sock) : OnPingPongFails(i, <<>>)
    \/ \E pingFails, terminateFails \in BOOLEAN :
           healthTickFails(pingFails, terminateFails)
    \/ hardResetFireTerminateFails

SpecFaults == Init /\ [][NextFaults]_vars

----------------------------------------------------------------------------
(* Properties: best-effort transport calls *)

caught(o) == {j \in 1..Len(o) : o[j].op = "caught"}

\* what process.exit(code) was asked for: none for null, 0 when the
\* argument is omitted, the code otherwise
requestedExit(code) ==
    IF code = Null THEN Running
    ELSE IF code = Undefined THEN <<Num(0)>>
    ELSE <<code>>

\* C29: a handler in which a transport call throws changes no counter, not
\* the cache and not the current session, schedules nothing and does not
\* terminate the process by itself, and no session changes its state in it
\* (but by the forced termination of the same health tick, when it is the
\* ping that threw and the termination went through); a stop whose close
\* throws, or that finds no session to close, still sets the flag, leaves no
\* timer armed and exits, or does not exit, as its argument asks.
C29_BestEffort ==
    [][/\ caught(out') # {} =>
             /\ sock' = IF terminations(out') = {} THEN sock
                        ELSE [sock EXCEPT ![ws].st = wsTerminate(@)]
             /\ ws' = ws
             /\ connectCount' = connectCount
             /\ disconnectCount' = disconnectCount
             /\ reconnectAttempts' = reconnectAttempts
             /\ dataMap' = dataMap
             /\ reconnectTimers' = reconnectTimers
             /\ ev' # "stop" => exited' = Running /\ UNCHANGED shuttingDown
       /\ \A code \in FaultStopArgs :
             /\ ev' = "stop" /\ ~shuttingDown
             /\ \/ stopMarketWatcherCloseFails(code)
                \/ ws = 0 /\ stopMarketWatcher(code)
             => /\ shuttingDown'
                /\ ~armed(displayTimer') /\ ~armed(healthTimer')
                /\ ~armed(hardResetTimer')
                /\ exited' = requestedExit(code)
                /\ sock' = sock
                /\ connectCount' = connectCount
                /\ disconnectCount' = disconnectCount
                /\ dataMap' = dataMap]_vars

\* a stop with exit code 1 during the second session: the close threw, the
\* flag is set, the timers are cleared and the process has exited with 1
C29_Witness ==
    /\ ev = "stop"
    /\ out = caughtOut("close") \o <<[op |-> "exit", code |-> Num(1)]>>
    /\ shuttingDown
    /\ exited = <<Num(1)>>
    /\ ws = 2
    /\ sock[2].st = "OPEN"
    /\ displayTimer.st = "cleared"
    /\ healthTimer.st = "cleared"
    /\ hardResetTimer.st = "cleared"
    /\ disconnectCount = 1

====
